---- MODULE Spec2Model ----
(***************************************************************************)
(* IPython/extensions/version_information.py: the %version_information     *)
(* line magic (the collector) and the four renderings of what it collects. *)
(*                                                                         *)
(* A Python string is modelled as a sequence of one-character strings, so  *)
(* that replace, split, escaping and formatting act character by           *)
(* character as they do in the code.                                       *)
(***************************************************************************)
EXTENDS Naturals, Sequences, FiniteSets, TLC

\* ------------------------------------------------------------------ bounds
\* longest input line handed to the magic
MaxLineLen == 3
\* seconds the system clock can advance
MaxClock == 1
\* longest string handed directly to _latex_escape
MaxStrLen == 3
\* references to returned reports the caller keeps (specification SpecHeld)
MaxHeld == 2
\* longest input line under SpecHeld
MaxHeldLineLen == 1

VARIABLES
    pkg_resources, \* the module global of lines 63-66: "module" or "None"
    clock,         \* the system clock, in seconds after the first reading
    built,         \* whether self.packages and self.time exist yet
    packages,      \* self.packages: sequence of <<name, version>>
    time,          \* self.time
    line,          \* the line argument of the last version_information call
    calls,         \* per requested module, the lookups the last call made
    raised,        \* <<>>, or <<e>> for the exception the last call let escape
    retval,        \* what the last call returned
    pp_text,       \* what the last call passed to pp.text, <<>> if nothing
    op,            \* name of the last operation called
    str_,          \* the argument of the direct _latex_escape call
    held           \* the returned references the caller kept, as it saw them

vars == <<pkg_resources, clock, built, packages, time, line, calls, raised,
          retval, pp_text, op, str_, held>>

\* ------------------------------------------------------- Python strings
RECURSIVE replace(_, _, _)
\* str.replace(old, new) for a one-character old
replace(s, old, new) ==
    IF s = <<>> THEN <<>>
    ELSE (IF Head(s) = old THEN new ELSE <<Head(s)>>) \o replace(Tail(s), old, new)

RECURSIVE split(_, _)
\* str.split(sep) for a one-character sep: always at least one piece
split(s, sep) ==
    IF s = <<>> THEN << <<>> >>
    ELSE LET rest == split(Tail(s), sep)
         IN  IF Head(s) = sep THEN << <<>> >> \o rest
             ELSE << <<Head(s)>> \o rest[1] >> \o Tail(rest)

RECURSIVE join(_)
\* ''.join(pieces)
join(pieces) ==
    IF pieces = <<>> THEN <<>> ELSE Head(pieces) \o join(Tail(pieces))

\* the values a call can return
None == [kind |-> "None", val |-> <<>>]
Self == [kind |-> "self", val |-> <<>>]
Str(s) == [kind |-> "str", val |-> s]

\* ------------------------------------------------- the interpreter's world
\* sys.version, with its embedded newline
sys_version == <<"2",".","7",".","3"," ","(","d","e","f","a","u","l","t",")"," ","\n","[","G",
                 "C","C"," ","4",".","6",".","3","]">>
IPython_version == <<"2",".","0",".","0","-","d","e","v">>
os_name == <<"p","o","s","i","x">>
sys_platform == <<"l","i","n","u","x","2">>

Digits == <<"0", "1", "2", "3", "4", "5", "6", "7", "8", "9">>

\* time.strftime('%a %b %d %H:%M:%S %Y %Z') at clock second c
strftime(c) == <<"M","o","n"," ","D","e","c"," ","0","9"," ","1","0",":","2","1",":","4">> \o <<Digits[c + 1]>> \o <<" ","2","0","1","3"," ","C","S",
                                                                "T">>

Exception(type, msg) == [type |-> type, msg |-> msg]

\* the classes `except Exception` catches
ExceptionClasses == {"ImportError", "AttributeError", "SyntaxError",
                     "DistributionNotFound", "IndexError"}
\* mutant: the handlers written as `except ImportError`
IsImportError(e) == e.type = "ImportError"

IsException(e) == e.type \in ExceptionClasses

\* str(e)
str(e) == e.msg

Ok(version) == [ok |-> TRUE, version |-> version]
Fail(e) == [ok |-> FALSE, exc |-> e]

\* exec("import M; version=M.__version__") in the modelled installation:
\* a and bb carry __version__, b and ba import but carry none, nothing else
\* is importable
exec_import(module) ==
    CASE module = <<"a">> -> Ok(<<"1",".","0","_","b","e","t","a","#","2">>)
      [] module = <<"b","b">> -> Ok(<<"<","1","&","2",">","\"","x","\"">>)
      [] module \in {<<"b">>, <<"b","a">>} ->
            Fail(Exception("AttributeError",
                 <<"'","m","o","d","u","l","e","'"," ","o","b","j","e","c","t"," ","h","a","s",
                   " ","n","o"," ","a","t","t","r","i","b","u","t","e"," ","'","_","_","v","e",
                   "r","s","i","o","n","_","_","'">>))
      [] OTHER ->
            Fail(Exception("ImportError", <<"N","o"," ","m","o","d","u","l","e"," ","n","a","m",
                                            "e","d"," ">> \o module))

\* pkg_resources.require(M)[0].version in the modelled installation:
\* distributions a, b and ab are installed
require_version(module) ==
    CASE module = <<"a">> -> Ok(<<"0",".","9">>)
      [] module = <<"b">> -> Ok(<<"2","<","3"," ","&"," ","{","x","}">>)
      [] module = <<"a","b">> -> Ok(<<"\\","~","^","%","$","'">>)
      [] OTHER ->
            Fail(Exception("DistributionNotFound",
                 <<"T","h","e"," ","'">> \o module \o <<"'"," ","d","i","s","t","r","i","b","u","t","i","o",
                                          "n"," ","w","a","s"," ","n","o","t"," ","f","o","u",
                                          "n","d">>))

\* -------------------------------------------------------------- collector
Entry(module, version, log) ==
    [entries |-> << <<module, version>> >>, calls |-> <<log>>, raised |-> <<>>]
Escapes(e, log) ==
    [entries |-> <<>>, calls |-> <<log>>, raised |-> <<e>>]

\* mutant: a failed registry lookup reports the step-1 error instead of its own
fallback_first_error(module, e) ==
    IF pkg_resources = "None"
    THEN Entry(module, str(e), <<"exec">>)
    ELSE LET r == require_version(module)
         IN  IF r.ok THEN Entry(module, r.version, <<"exec", "require">>)
             ELSE Entry(module, str(e), <<"exec", "require">>)

\* the handler of lines 92-99 for the step-1 error e
fallback(module, e) ==
    IF pkg_resources = "None"
    THEN \* the bare raise re-raises e into the inner handler
         IF IsException(e) THEN Entry(module, str(e), <<"exec">>)
         ELSE Escapes(e, <<"exec">>)
    ELSE LET r == require_version(module)
         IN  IF r.ok THEN Entry(module, r.version, <<"exec", "require">>)
             ELSE IF IsException(r.exc)
                  THEN Entry(module, str(r.exc), <<"exec", "require">>)
                  ELSE Escapes(r.exc, <<"exec", "require">>)

\* one pass of the loop body, lines 86-99
resolve(module) ==
    IF Len(module) > 0
    THEN LET r == exec_import(module)
         IN  IF r.ok THEN Entry(module, r.version, <<"exec">>)
             ELSE IF IsException(r.exc) THEN fallback(module, r.exc)
                  ELSE Escapes(r.exc, <<"exec">>)
    ELSE [entries |-> <<>>, calls |-> <<>>, raised |-> <<>>]

RECURSIVE collect_once(_, _)
\* mutant: a module already reported is not reported again
collect_once(modules, acc) ==
    IF modules = <<>> \/ acc.raised # <<>> THEN acc
    ELSE IF \E i \in 1..Len(acc.packages) : acc.packages[i][1] = Head(modules)
         THEN collect_once(Tail(modules), acc)
    ELSE LET r == resolve(Head(modules))
         IN  collect_once(Tail(modules),
                          [packages |-> acc.packages \o r.entries,
                           calls |-> acc.calls \o r.calls,
                           raised |-> r.raised])

RECURSIVE collect(_, _)
\* the loop of lines 85-99 over the modules left, appending to acc
collect(modules, acc) ==
    IF modules = <<>> \/ acc.raised # <<>> THEN acc
    ELSE LET r == resolve(Head(modules))
         IN  collect(Tail(modules),
                     [packages |-> acc.packages \o r.entries,
                      calls |-> acc.calls \o r.calls,
                      raised |-> r.raised])

\* lines 81-83
header_packages ==
    << <<<<"P","y","t","h","o","n">>, replace(sys_version, "\n", <<>>)>>,
       <<<<"I","P","y","t","h","o","n">>, IPython_version>>,
       <<<<"O","S">>, os_name \o <<" ","[">> \o sys_platform \o <<"]">>>> >>

\* line 84
modules_of(line_) == split(replace(line_, " ", <<>>), ",")

\* %version_information line_
version_information(line_) ==
    \E r \in {collect(modules_of(line_),
                       [packages |-> header_packages, calls |-> <<>>, raised |-> <<>>])} :
        /\ time' = strftime(clock)
        /\ packages' = r.packages
        /\ built' = TRUE
        /\ calls' = r.calls
        /\ raised' = r.raised
        /\ retval' = IF r.raised = <<>> THEN Self ELSE None
        /\ line' = line_
        /\ op' = "version_information"
        /\ pp_text' = <<>>
        /\ UNCHANGED <<pkg_resources, clock, str_, held>>

\* -------------------------------------------------------------- renderers
\* mutant: the characters of a str are written out as they are
json_char_raw(c) == <<c>>

\* json.dumps of one character of a str (ensure_ascii, ASCII input)
json_char(c) ==
    CASE c = "\"" -> <<"\\","\"">>
      [] c = "\\" -> <<"\\","\\">>
      [] c = "\n" -> <<"\\","n">>
      [] c = "\t" -> <<"\\","t">>
      [] OTHER -> <<c>>

RECURSIVE json_chars(_)
json_chars(s) ==
    IF s = <<>> THEN <<>> ELSE json_char(Head(s)) \o json_chars(Tail(s))

\* json.dumps of a str
json_dumps_str(s) == <<"\"">> \o json_chars(s) \o <<"\"">>

RECURSIVE join_with(_, _)
\* sep.join(pieces)
join_with(sep, pieces) ==
    IF pieces = <<>> THEN <<>>
    ELSE IF Len(pieces) = 1 THEN pieces[1]
    ELSE pieces[1] \o sep \o join_with(sep, Tail(pieces))

\* json.dumps({'module': name, 'version': version}), keys in insertion order
json_dumps_entry(p) ==
    <<"{">> \o json_dumps_str(<<"m","o","d","u","l","e">>) \o <<":"," ">> \o json_dumps_str(p[1])
         \o <<","," ">> \o json_dumps_str(<<"v","e","r","s","i","o","n">>) \o <<":"," ">> \o json_dumps_str(p[2])
         \o <<"}">>

\* json.dumps(obj) of lines 103-107
json_dumps_obj(pkgs) ==
    <<"{">> \o json_dumps_str(<<"S","o","f","t","w","a","r","e"," ","v","e","r","s","i","o","n",
                              "s">>) \o <<":"," ","[">>
         \o join_with(<<","," ">>, [i \in 1..Len(pkgs) |-> json_dumps_entry(pkgs[i])])
         \o <<"]","}">>

\* mutant: the ampersand is translated last, so it hits the entities too
cgi_escape_amp_last(s) ==
    replace(replace(replace(s, "<", <<"&","l","t",";">>), ">", <<"&","g","t",";">>), "&", <<"&","a","m","p",";">>)

\* cgi.escape(s): quote is not given, so only & < > are translated; the
\* ampersand is translated first
cgi_escape(s) ==
    replace(replace(replace(s, "&", <<"&","a","m","p",";">>), "<", <<"&","l","t",";">>), ">", <<"&","g","t",";">>)

\* the generator __repr_html of lines 110-117, joined
__repr_html(pkgs, t) ==
    <<"<","t","a","b","l","e",">">>
    \o <<"<","t","r",">","<","t","h",">","S","o","f","t","w","a","r","e","<","/","t","h",">",
         "<","t","h",">","V","e","r","s","i","o","n","<","/","t","h",">","<","/","t","r",">">>
    \o join([i \in 1..Len(pkgs) |->
                <<"<","t","r",">","<","t","d",">">> \o pkgs[i][1] \o <<"<","/","t","d",">","<","t","d",">">>
                    \o cgi_escape(pkgs[i][2]) \o <<"<","/","t","d",">","<","/","t","r",">">>])
    \o <<"<","t","r",">","<","t","d"," ","c","o","l","s","p","a","n","=","'","2","'",">">> \o t \o <<"<","/","t","d",">","<","/","t","r",">">>
    \o <<"<","/","t","a","b","l","e",">">>

\* CHARS.get(c, c) of lines 122-136
CHARS_get(c) ==
    CASE c = "&" -> <<"\\","&">>
      [] c = "%" -> <<"\\","%">>
      [] c = "$" -> <<"\\","$">>
      [] c = "#" -> <<"\\","#">>
      [] c = "_" -> <<"\\","l","e","t","t","e","r","u","n","d","e","r","s","c","o","r","e","{",
                      "}">>
      [] c = "{" -> <<"\\","l","e","t","t","e","r","o","p","e","n","b","r","a","c","e","{","}">>
      [] c = "}" -> <<"\\","l","e","t","t","e","r","c","l","o","s","e","b","r","a","c","e","{",
                      "}">>
      [] c = "~" -> <<"\\","l","e","t","t","e","r","t","i","l","d","e","{","}">>
      [] c = "^" -> <<"\\","l","e","t","t","e","r","h","a","t","{","}">>
      [] c = "\\" -> <<"\\","l","e","t","t","e","r","b","a","c","k","s","l","a","s","h","{","}">>
      [] c = ">" -> <<"\\","t","e","x","t","g","r","e","a","t","e","r">>
      [] c = "<" -> <<"\\","t","e","x","t","l","e","s","s">>
      [] OTHER -> <<c>>

\* mutant: one str.replace per table row, in table order, over the whole
\* string, so that what a row produced is escaped again by a later row
_latex_escape_in_turn(s) ==
    replace(replace(replace(replace(replace(replace(
    replace(replace(replace(replace(replace(replace(s,
        "&", CHARS_get("&")), "%", CHARS_get("%")), "$", CHARS_get("$")),
        "#", CHARS_get("#")), "_", CHARS_get("_")), "{", CHARS_get("{")),
        "}", CHARS_get("}")), "~", CHARS_get("~")), "^", CHARS_get("^")),
        "\\", CHARS_get("\\")), ">", CHARS_get(">")), "<", CHARS_get("<"))

\* u"".join([CHARS.get(c, c) for c in str_])
_latex_escape(s) == join([i \in 1..Len(s) |-> CHARS_get(s[i])])

\* the generator __repr_latex of lines 139-146, joined; the literals are raw
\* strings, so each \n in them is a backslash and an n
__repr_latex(pkgs, t) ==
    <<"\\","b","e","g","i","n","{","t","a","b","u","l","a","r","}","{","|","l","|","l","|","}",
      "\\","h","l","i","n","e","\\","n">>
    \o <<"{","\\","b","f"," ","S","o","f","t","w","a","r","e","}"," ","&"," ","{","\\","b","f",
         " ","V","e","r","s","i","o","n","}"," ","\\","\\"," ","\\","h","l","i","n","e","\\",
         "h","l","i","n","e","\\","n">>
    \o join([i \in 1..Len(pkgs) |->
                pkgs[i][1] \o <<" ","&"," ">> \o _latex_escape(pkgs[i][2])
                    \o <<" ","\\","\\"," ","\\","h","l","i","n","e","\\","n">>])
    \o <<"\\","h","l","i","n","e"," ","\\","m","u","l","t","i","c","o","l","u","m","n","{","2",
         "}","{","|","l","|","}","{">> \o t \o <<"}"," ","\\","\\"," ","\\","h","l","i","n",
                                                    "e","\\","n">>
    \o <<"\\","e","n","d","{","t","a","b","u","l","a","r","}","\\","n">>

\* mutant: the report is cut after two entries instead of three
__repr_pretty_cut_at_two(pkgs, t) ==
    <<"#"," ","S","o","f","t","w","a","r","e"," ","v","e","r","s","i","o","n","s","\n","#"," ",
      "-","-","-","-","-","-","-","-","-","-","-","-","-","-","-","-","-","\n">>
    \o <<"#"," ">> \o t \o <<"\n">>
    \o join([i \in 1..(IF Len(pkgs) < 2 THEN Len(pkgs) ELSE 2) |->
                <<"#"," ">> \o pkgs[i][1] \o <<":"," ">> \o pkgs[i][2] \o <<"\n">>])
    \o join([i \in 1..(IF Len(pkgs) < 2 THEN 0 ELSE Len(pkgs) - 2) |->
                pkgs[i + 2][1] \o <<"=","=">> \o pkgs[i + 2][2] \o <<"\n">>])

\* the generator __repr_pretty of lines 150-157, joined
__repr_pretty(pkgs, t) ==
    <<"#"," ","S","o","f","t","w","a","r","e"," ","v","e","r","s","i","o","n","s","\n","#"," ",
      "-","-","-","-","-","-","-","-","-","-","-","-","-","-","-","-","-","\n">>
    \o <<"#"," ">> \o t \o <<"\n">>
    \o join([i \in 1..(IF Len(pkgs) < 3 THEN Len(pkgs) ELSE 3) |->
                <<"#"," ">> \o pkgs[i][1] \o <<":"," ">> \o pkgs[i][2] \o <<"\n">>])
    \o join([i \in 1..(IF Len(pkgs) < 3 THEN 0 ELSE Len(pkgs) - 3) |->
                pkgs[i + 3][1] \o <<"=","=">> \o pkgs[i + 3][2] \o <<"\n">>])

\* what a rendering leaves alone; the display machinery calls the renderers
\* on the object version_information returned, so the attributes exist
RenderFrame ==
    UNCHANGED <<pkg_resources, clock, built, packages, time, line, calls,
                str_, held>>

_repr_json_ ==
    /\ built
    /\ retval' = Str(json_dumps_obj(packages))
    /\ raised' = <<>>
    /\ op' = "_repr_json_"
    /\ pp_text' = <<>>
    /\ RenderFrame

\* mutant: the escaped versions are stored back into self.packages
_repr_html_in_place ==
    /\ built
    /\ retval' = Str(__repr_html(packages, time))
    /\ packages' = [i \in 1..Len(packages) |->
                       <<packages[i][1], cgi_escape(packages[i][2])>>]
    /\ raised' = <<>>
    /\ op' = "_repr_html_"
    /\ pp_text' = <<>>
    /\ UNCHANGED <<pkg_resources, clock, built, time, line, calls, str_, held>>

_repr_html_ ==
    /\ built
    /\ retval' = Str(__repr_html(packages, time))
    /\ raised' = <<>>
    /\ op' = "_repr_html_"
    /\ pp_text' = <<>>
    /\ RenderFrame

_repr_latex_ ==
    /\ built
    /\ retval' = Str(__repr_latex(packages, time))
    /\ raised' = <<>>
    /\ op' = "_repr_latex_"
    /\ pp_text' = <<>>
    /\ RenderFrame

\* _repr_pretty_(pp, cycle): the text goes to pp.text and nothing is returned
_repr_pretty_ ==
    /\ built
    /\ pp_text' = __repr_pretty(packages, time)
    /\ retval' = None
    /\ raised' = <<>>
    /\ op' = "_repr_pretty_"
    /\ RenderFrame

\* ------------------------------------------------------------ environment
\* the system clock advances
Tick ==
    /\ clock < MaxClock
    /\ clock' = clock + 1
    /\ UNCHANGED <<pkg_resources, built, packages, time, line, calls, raised,
                   retval, pp_text, op, str_, held>>

Alphabet == {"a", "b", " ", ","}

RECURSIVE Strings(_, _)
\* the strings over A of length at most n
Strings(A, n) ==
    IF n = 0 THEN {<<>>}
    ELSE LET S == Strings(A, n - 1)
         IN  S \cup {Append(s, c) : s \in {t \in S : Len(t) = n - 1}, c \in A}

Lines == Strings(Alphabet, MaxLineLen)

\* the state after load_ipython_extension: the magics object exists, nothing
\* is collected yet
Loaded ==
    /\ pkg_resources \in {"module", "None"}
    /\ clock = 0
    /\ built = FALSE
    /\ packages = <<>>
    /\ time = <<>>
    /\ line = <<>>
    /\ calls = <<>>
    /\ raised = <<>>
    /\ retval = None
    /\ pp_text = <<>>
    /\ op = "load_ipython_extension"
    /\ held = <<>>

Init == Loaded /\ str_ = <<>>

Invoke == \E line_ \in Lines : version_information(line_)

Next ==
    \/ Tick
    \/ Invoke
    \/ _repr_json_
    \/ _repr_html_
    \/ _repr_latex_
    \/ _repr_pretty_

\* a session of the magic and of the display of what it returns
Spec == Init /\ [][Next]_vars

\* --------------------------------------- the caller keeping what it was given
\* the object a reference designates; the magics object is the only one
Deref(ref) == [packages |-> packages, time |-> time]

\* the caller stores the reference version_information just returned (as
\* IPython's Out[n] does), noting the report as it stands on return
Keep ==
    /\ op = "version_information"
    /\ retval = Self
    /\ Len(held) < MaxHeld
    /\ held' = Append(held, [ref |-> retval.kind, seen |-> Deref(retval.kind)])
    /\ UNCHANGED <<pkg_resources, clock, built, packages, time, line, calls,
                   raised, retval, pp_text, op, str_>>

HeldLines == Strings(Alphabet, MaxHeldLineLen)

HeldInvoke == \E line_ \in HeldLines : version_information(line_)

NextHeld ==
    \/ Tick
    \/ HeldInvoke
    \/ Keep
    \/ _repr_json_
    \/ _repr_html_
    \/ _repr_latex_
    \/ _repr_pretty_

\* the same session, with the caller keeping the reports it is handed
SpecHeld == Init /\ [][NextHeld]_vars

\* ------------------------------------------- _latex_escape called directly
LatexAlphabet == {"&", "%", "$", "#", "_", "{", "}", "~", "^", "\\", ">", "<",
                  "1", "x"}

LatexExample == <<"1",".","0","_","b","e","t","a","#","2">>

LatexInputs == Strings(LatexAlphabet, MaxStrLen) \cup {LatexExample}

\* VersionInformation._latex_escape(str_), a static method, called once
latex_escape_call ==
    /\ op # "_latex_escape"
    /\ retval' = Str(_latex_escape(str_))
    /\ raised' = <<>>
    /\ pp_text' = <<>>
    /\ op' = "_latex_escape"
    /\ UNCHANGED <<pkg_resources, clock, built, packages, time, line, calls,
                   str_, held>>

\* the argument is any of the inputs
InitLatex == Loaded /\ str_ \in LatexInputs

NextLatex == latex_escape_call

SpecLatex == InitLatex /\ [][NextLatex]_vars

\* ====================================================================
\* Claims
\* ====================================================================
Min(S) == CHOOSE x \in S : \A y \in S : x <= y
Max(S) == CHOOSE x \in S : \A y \in S : y <= x

\* how many commas stand before position i of l
CommasBefore(l, i) == Cardinality({j \in 1..(i - 1) : l[j] = ","})

\* the k-th comma-separated piece of l, k from 1
Piece(l, k) ==
    LET I == {i \in 1..Len(l) : l[i] # "," /\ CommasBefore(l, i) = k - 1}
    IN  IF I = {} THEN <<>> ELSE SubSeq(l, Min(I), Max(I))

Pieces(l) == [k \in 1..(CommasBefore(l, Len(l) + 1) + 1) |-> Piece(l, k)]

IsNonEmpty(s) == s # <<>>
IsNoSpace(c) == c # " "

\* the requested names as the collector counts them: what stands between
\* the commas, spaces set aside, nothing left out but the empty pieces
Tokens(l) ==
    SelectSeq([k \in DOMAIN Pieces(l) |-> SelectSeq(Pieces(l)[k], IsNoSpace)],
              IsNonEmpty)

\* a piece without the spaces around it
Strip(s) ==
    LET I == {i \in 1..Len(s) : s[i] # " "}
    IN  IF I = {} THEN <<>> ELSE SubSeq(s, Min(I), Max(I))

\* the requested names with only their surrounding whitespace removed
StrippedTokens(l) ==
    SelectSeq([k \in DOMAIN Pieces(l) |-> Strip(Pieces(l)[k])], IsNonEmpty)

HeaderNames == <<<<"P","y","t","h","o","n">>, <<"I","P","y","t","h","o","n">>, <<"O","S">>>>

\* C1: the report of a call has the three header entries Python, IPython, OS
\* first and then one entry per non-empty comma-separated token of the line,
\* in the order supplied, a token given twice giving two entries.
C1_EntriesPerToken ==
    built =>
        LET want == Tokens(line)
        IN  /\ raised = <<>>
            /\ Len(packages) = 3 + Len(want)
            /\ \A i \in 1..3 : packages[i][1] = HeaderNames[i]
            /\ \A k \in 1..Len(want) : packages[3 + k][1] = want[k]

\* C1 witness: a module requested twice has two entries
C1_Witness ==
    /\ op = "version_information"
    /\ line = <<"a",",","a">>
    /\ Len(packages) = 5
    /\ packages[4] = packages[5]

\* a name neither step resolves
Unresolvable(n) ==
    /\ ~exec_import(n).ok
    /\ pkg_resources = "None" \/ ~require_version(n).ok

\* C2: a requested name that cannot be resolved does not make the call
\* raise, and has one entry per request, whose version is a non-empty
\* diagnostic string.
C2_FailuresStayInReport ==
    built =>
        LET want == Tokens(line)
        IN  /\ raised = <<>>
            /\ op = "version_information" => retval = Self
            /\ \A k \in 1..Len(want) :
                  Unresolvable(want[k]) =>
                     /\ Cardinality({i \in 4..Len(packages) : packages[i][1] = want[k]})
                           = Cardinality({j \in 1..Len(want) : want[j] = want[k]})
                     /\ \A i \in 4..Len(packages) :
                           packages[i][1] = want[k] => Len(packages[i][2]) > 0

\* C2 witness: a module that imports without __version__ and has no
\* distribution, and one that is not found at all
C2_Witness ==
    /\ op = "version_information"
    /\ pkg_resources = "module"
    /\ line = <<"b","a",",">>
    /\ Len(packages) = 4
    /\ Unresolvable(packages[4][1])
    /\ Len(packages[4][2]) > 0

\* C9: per requested module the steps are tried in order and the first
\* success wins: __version__ when reading it succeeds, the registry not
\* being consulted; else the registry's version; else the string of the last
\* error, the registry's when it was asked and the step-1 error when there
\* is no registry.
C9_FirstSuccessWins ==
    built =>
        LET want == Tokens(line)
        IN  /\ Len(packages) = 3 + Len(want)
            /\ Len(calls) = Len(want)
            /\ \A k \in 1..Len(want) :
                  LET s1 == exec_import(want[k])
                      s2 == require_version(want[k])
                      v == packages[3 + k][2]
                  IN  IF s1.ok
                      THEN v = s1.version /\ calls[k] = <<"exec">>
                      ELSE IF pkg_resources = "None"
                      THEN v = str(s1.exc) /\ calls[k] = <<"exec">>
                      ELSE /\ calls[k] = <<"exec", "require">>
                           /\ v = IF s2.ok THEN s2.version ELSE str(s2.exc)

\* C9 witness: a is resolved by step 1 alone although the registry knows
\* another version of it, b by the registry after step 1 failed
C9_Witness ==
    /\ op = "version_information"
    /\ pkg_resources = "module"
    /\ line = <<"a",",","b">>
    /\ calls = << <<"exec">>, <<"exec", "require">> >>
    /\ packages[4][2] = exec_import(<<"a">>).version
    /\ packages[4][2] # require_version(<<"a">>).version
    /\ packages[5][2] = require_version(<<"b">>).version

\* C10: what is looked up and reported is each comma-separated entry with
\* only its surrounding whitespace removed, the entries empty after that
\* being skipped.
C10_NamesAsSupplied ==
    built =>
        LET want == StrippedTokens(line)
        IN  /\ Len(packages) = 3 + Len(want)
            /\ \A k \in 1..Len(want) : packages[3 + k][1] = want[k]

\* C3: a report handed out by an earlier call is still what it was when it
\* was handed out.
C3_ReportsKeepTheirContent ==
    \A i \in 1..Len(held) : Deref(held[i].ref) = held[i].seen

\* ------------------------------------------------------------- renderings
Renderers == {"_repr_json_", "_repr_html_", "_repr_latex_", "_repr_pretty_"}

\* the text a renderer makes of a report
RenderText(o, pkgs, t) ==
    CASE o = "_repr_json_" -> json_dumps_obj(pkgs)
      [] o = "_repr_html_" -> __repr_html(pkgs, t)
      [] o = "_repr_latex_" -> __repr_latex(pkgs, t)
      [] o = "_repr_pretty_" -> __repr_pretty(pkgs, t)

\* C4 as stated: a rendering leaves the entries and the timestamp of the
\* report unchanged, and each of the four returns a string that is a function
\* of the report alone.
C4_RenderersReturnStrings ==
    [][op' \in Renderers =>
          /\ packages' = packages
          /\ time' = time
          /\ retval' = Str(RenderText(op', packages, time))]_vars

\* C4 as amended: a rendering leaves the entries and the timestamp of the
\* report unchanged; the JSON, HTML and LaTeX renderers return a string and
\* the pretty renderer returns None and passes its string to pp.text; in
\* each case the string is a function of the report alone.
C4_RenderersArePure ==
    [][op' \in Renderers =>
          /\ packages' = packages
          /\ time' = time
          /\ IF op' = "_repr_pretty_"
             THEN retval' = None /\ pp_text' = RenderText(op', packages, time)
             ELSE retval' = Str(RenderText(op', packages, time)) /\ pp_text' = <<>>]_vars

\* C4 witness: the pretty rendering of a report with a requested module has
\* been handed to the printer
C4_Witness ==
    /\ op = "_repr_pretty_"
    /\ Len(packages) > 3
    /\ retval = None
    /\ pp_text # <<>>

\* the entity that stands for a character in HTML text
HtmlEntity(c) ==
    CASE c = "&" -> <<"&","a","m","p",";">>
      [] c = "<" -> <<"&","l","t",";">>
      [] c = ">" -> <<"&","g","t",";">>
      [] c = "\"" -> <<"&","q","u","o","t",";">>
      [] c = "'" -> <<"&","#","x","2","7",";">>
      [] OTHER -> <<c>>

RECURSIVE EntitiesFor(_, _)
\* s with each of its characters that is in special replaced by its entity
EntitiesFor(s, special) ==
    IF s = <<>> THEN <<>>
    ELSE EntitiesFor(SubSeq(s, 1, Len(s) - 1), special)
            \o (IF s[Len(s)] \in special THEN HtmlEntity(s[Len(s)]) ELSE <<s[Len(s)]>>)

RECURSIVE HtmlRows(_, _, _)
\* the rows of the entries from the i-th on
HtmlRows(pkgs, i, special) ==
    IF i > Len(pkgs) THEN <<>>
    ELSE <<"<","t","r",">","<","t","d",">">> \o pkgs[i][1] \o <<"<","/","t","d",">","<","t","d",">">>
            \o EntitiesFor(pkgs[i][2], special) \o <<"<","/","t","d",">","<","/","t","r",">">>
            \o HtmlRows(pkgs, i + 1, special)

HtmlTable(pkgs, t, special) ==
    <<"<","t","a","b","l","e",">","<","t","r",">","<","t","h",">","S","o","f","t","w","a","r",
      "e","<","/","t","h",">","<","t","h",">","V","e","r","s","i","o","n","<","/","t","h",">",
      "<","/","t","r",">">>
        \o HtmlRows(pkgs, 1, special)
        \o <<"<","t","r",">","<","t","d"," ","c","o","l","s","p","a","n","=","'","2","'",">">> \o t \o <<"<","/","t","d",">","<","/","t","r",">","<","/",
                                              "t","a","b","l","e",">">>

\* C5 as stated: after the header row the HTML has one row per entry, in
\* report order, then the full-width timestamp row, and in each entry row
\* every ampersand, angle bracket and quote of the version is replaced by
\* its entity.
C5_HtmlEscapesQuotesToo ==
    op = "_repr_html_" =>
        retval = Str(HtmlTable(packages, time, {"&", "<", ">", "\"", "'"}))

\* C5 as amended: after the header row the HTML has one row per entry, in
\* report order, then the full-width timestamp row, and in each entry row
\* every ampersand and angle bracket of the version is replaced by its
\* entity, while quote characters are left as they are.
C5_HtmlEscapesAmpAndAngles ==
    op = "_repr_html_" =>
        retval = Str(HtmlTable(packages, time, {"&", "<", ">"}))

Contains(s, c) == \E i \in 1..Len(s) : s[i] = c

\* C5 witness: the HTML of a report one of whose versions has an angle
\* bracket, an ampersand and a quote
C5_Witness ==
    /\ op = "_repr_html_"
    /\ \E i \in 1..Len(packages) :
          /\ Contains(packages[i][2], "<")
          /\ Contains(packages[i][2], "&")
          /\ Contains(packages[i][2], "\"")

\* the escape table of the LaTeX rendering, as pairs
LatexTable ==
    { <<"&", <<"\\","&">>>>, <<"%", <<"\\","%">>>>, <<"$", <<"\\","$">>>>, <<"#", <<"\\","#">>>>,
      <<"_", <<"\\","l","e","t","t","e","r","u","n","d","e","r","s","c","o","r","e","{","}">>>>, <<"{", <<"\\","l","e","t","t","e","r","o","p","e","n",
                                                  "b","r","a","c","e","{","}">>>>,
      <<"}", <<"\\","l","e","t","t","e","r","c","l","o","s","e","b","r","a","c","e","{","}">>>>, <<"~", <<"\\","l","e","t","t","e","r","t","i","l","d",
                                                  "e","{","}">>>>,
      <<"^", <<"\\","l","e","t","t","e","r","h","a","t","{","}">>>>, <<"\\", <<"\\","l","e","t","t","e","r","b","a","c","k","s",
                                            "l","a","s","h","{","}">>>>,
      <<">", <<"\\","t","e","x","t","g","r","e","a","t","e","r">>>>, <<"<", <<"\\","t","e","x","t","l","e","s","s">>>> }

\* the image of one character: its table sequence, or itself
LatexImage(c) ==
    IF \E p \in LatexTable : p[1] = c
    THEN (CHOOSE p \in LatexTable : p[1] = c)[2]
    ELSE <<c>>

RECURSIVE LatexImages(_)
\* the images of the characters of s, in order
LatexImages(s) ==
    IF s = <<>> THEN <<>>
    ELSE LatexImages(SubSeq(s, 1, Len(s) - 1)) \o LatexImage(s[Len(s)])

\* C6: _latex_escape gives the in-order concatenation of the images of the
\* characters of its argument, a table character having its table sequence
\* as image and any other character itself, nothing produced being escaped
\* again; 1.0_beta#2 becomes 1.0\letterunderscore{}beta\#2.
C6_LatexEscapePerCharacter ==
    op = "_latex_escape" =>
        /\ retval = Str(LatexImages(str_))
        /\ str_ = LatexExample => retval.val = <<"1",".","0","\\","l","e","t","t","e","r","u",
                                                 "n","d","e","r","s","c","o","r","e","{","}",
                                                 "b","e","t","a","\\","#","2">>

\* C6 witness: the example of the claim has been escaped
C6_Witness ==
    /\ op = "_latex_escape"
    /\ str_ = LatexExample
    /\ retval.kind = "str"

\* ---- a JSON reader, for the round trip
Bad == [ok |-> FALSE, val |-> <<>>, next |-> 0]
Good(v, n) == [ok |-> TRUE, val |-> v, next |-> n]
JString(x) == [t |-> "string", v |-> x]
JArray(xs) == [t |-> "array", v |-> xs]
\* an object is its set of <<key, value>> members
JObject(ms) == [t |-> "object", v |-> ms]

RECURSIVE SkipWs(_, _)
SkipWs(s, i) ==
    IF i <= Len(s) /\ s[i] \in {" ", "\n", "\t"} THEN SkipWs(s, i + 1) ELSE i

RECURSIVE ClosingQuote(_, _)
\* the position of the double quote that closes the string literal whose
\* body starts at position j of s (0 if none): a backslash takes the
\* character after it along
ClosingQuote(s, j) ==
    IF j > Len(s) THEN 0
    ELSE IF s[j] = "\"" THEN j
    ELSE ClosingQuote(s, IF s[j] = "\\" THEN j + 2 ELSE j + 1)

\* the character an escape \c stands for, <<>> if there is no such escape
Escaped(c) ==
    CASE c = "n" -> <<"\n">>
      [] c = "t" -> <<"\t">>
      [] c \in {"\"", "\\", "/"} -> <<c>>
      [] OTHER -> <<>>

RECURSIVE Unescape(_, _)
\* what the body raw of a string literal stands for, from position p on;
\* the empty string in it marks what no JSON string may hold
Unescape(raw, p) ==
    IF p > Len(raw) THEN <<>>
    ELSE IF raw[p] = "\\"
         THEN (IF p = Len(raw) \/ Escaped(raw[p + 1]) = <<>> THEN <<"">>
               ELSE Escaped(raw[p + 1]) \o Unescape(raw, p + 2))
    ELSE IF raw[p] \in {"\n", "\t"} THEN <<"">>
    ELSE <<raw[p]>> \o Unescape(raw, p + 1)

\* the string literal that opens at position i
ReadString(s, i) ==
    IF i > Len(s) \/ s[i] # "\"" THEN Bad
    ELSE LET j == ClosingQuote(s, i + 1)
             v == Unescape(SubSeq(s, i + 1, j - 1), 1)
         IN  IF j = 0 \/ j > Len(s) THEN Bad
             ELSE IF \E k \in 1..Len(v) : v[k] = "" THEN Bad
             ELSE Good(v, j + 1)

RECURSIVE ReadValue(_, _)
RECURSIVE ReadElements(_, _, _)
RECURSIVE ReadMembers(_, _, _)

\* the value that starts at or after position i
ReadValue(s, i) ==
    LET j == SkipWs(s, i)
        k == SkipWs(s, j + 1)
    IN  IF j > Len(s) THEN Bad
        ELSE IF s[j] = "\"" THEN
            (LET r == ReadString(s, j)
             IN  IF r.ok THEN Good(JString(r.val), r.next) ELSE Bad)
        ELSE IF s[j] = "[" THEN
            (IF k <= Len(s) /\ s[k] = "]" THEN Good(JArray(<<>>), k + 1)
             ELSE ReadElements(s, k, <<>>))
        ELSE IF s[j] = "{" THEN
            (IF k <= Len(s) /\ s[k] = "}" THEN Good(JObject({}), k + 1)
             ELSE ReadMembers(s, k, {}))
        ELSE Bad

\* the elements of an array from position i on, acc being read already
ReadElements(s, i, acc) ==
    LET r == ReadValue(s, i)
        j == SkipWs(s, r.next)
    IN  IF ~r.ok \/ j > Len(s) THEN Bad
        ELSE IF s[j] = "," THEN ReadElements(s, j + 1, Append(acc, r.val))
        ELSE IF s[j] = "]" THEN Good(JArray(Append(acc, r.val)), j + 1)
        ELSE Bad

\* the members of an object from position i on, acc being read already
ReadMembers(s, i, acc) ==
    LET key == ReadString(s, SkipWs(s, i))
        c == SkipWs(s, key.next)
        r == ReadValue(s, c + 1)
        j == SkipWs(s, r.next)
    IN  IF ~key.ok \/ c > Len(s) THEN Bad
        ELSE IF s[c] # ":" \/ ~r.ok \/ j > Len(s) THEN Bad
        ELSE IF s[j] = "," THEN ReadMembers(s, j + 1, acc \cup {<<key.val, r.val>>})
        ELSE IF s[j] = "}" THEN Good(JObject(acc \cup {<<key.val, r.val>>}), j + 1)
        ELSE Bad

\* json.loads: one value and nothing after it
JsonLoads(s) ==
    LET r == ReadValue(s, 1)
    IN  IF r.ok /\ SkipWs(s, r.next) = Len(s) + 1 THEN r ELSE Bad

\* the JSON form of a report: no timestamp in it
JsonOfReport(pkgs) ==
    JObject({ <<<<"S","o","f","t","w","a","r","e"," ","v","e","r","s","i","o","n","s">>,
                JArray([i \in 1..Len(pkgs) |->
                          JObject({ <<<<"m","o","d","u","l","e">>, JString(pkgs[i][1])>>,
                                    <<<<"v","e","r","s","i","o","n">>, JString(pkgs[i][2])>> })])>> })

\* C7: parsing the JSON rendering gives an object with the single key
\* "Software versions" whose array has one {module, version} object per
\* entry, in report order, equal to the entry's name and version, with the
\* timestamp nowhere in it.
C7_JsonRoundTrip ==
    op = "_repr_json_" =>
        /\ retval.kind = "str"
        /\ JsonLoads(retval.val).ok
        /\ JsonLoads(retval.val).val = JsonOfReport(packages)

\* C7 witness: the JSON of a report with a requested module whose version
\* has a double quote, which the JSON text has to escape
C7_Witness ==
    /\ op = "_repr_json_"
    /\ Len(packages) > 3
    /\ \E i \in 4..Len(packages) : Contains(packages[i][2], "\"")

\* the line of the i-th entry in the plain rendering
PrettyLine(pkgs, i) ==
    IF i <= 3
    THEN <<"#"," ">> \o pkgs[i][1] \o <<":"," ">> \o pkgs[i][2] \o <<"\n">>
    ELSE pkgs[i][1] \o <<"=","=">> \o pkgs[i][2] \o <<"\n">>

RECURSIVE PrettyLines(_, _)
PrettyLines(pkgs, i) ==
    IF i > Len(pkgs) THEN <<>> ELSE PrettyLine(pkgs, i) \o PrettyLines(pkgs, i + 1)

====
